---- MODULE Spec2Model ----
(***************************************************************************)
(* A model of src/main.py: the 24-hour API performance report.             *)
(*                                                                         *)
(*   main: connect_to_mongodb -> fetch_last_24_hours_records ->            *)
(*         analyze_records -> generate_csv -> send_email_with_csv          *)
(*                                                                         *)
(* Strings that are compared with < (user names, sorted() in generate_csv) *)
(* are tuples of code points, so that Python's str ordering is computed.   *)
(* A record (a MongoDB document, a Python dict) is a function whose DOMAIN *)
(* holds exactly the keys that are present: an absent key is absent.       *)
(***************************************************************************)
EXTENDS Integers, Sequences, FiniteSets, TLC

\* ------------------------------------------------------------------ bounds

\* Longest record list of AnalysisSpec.
MaxRecords == 2
\* Longest record list of CsvSpec.
MaxCsvRecords == 4
\* Longest record list the store returns in Spec (the run of main).
MaxFetch == 2

\* ----------------------------------------------------------- user names

\* "alice", "bob", "al" (a proper prefix of "alice") and "Unknown" as code points.
alice == <<97, 108, 105, 99, 101>>
bob == <<98, 111, 98>>
al == <<97, 108>>
\* The default of record.get('user_name', 'Unknown').
Unknown == <<85, 110, 107, 110, 111, 119, 110>>

\* Python's str.__lt__: the first differing code point decides; a proper
\* prefix is smaller.
RECURSIVE StrLess(_, _)
StrLess(a, b) ==
    IF b = <<>> THEN FALSE
    ELSE IF a = <<>> THEN TRUE
    ELSE IF Head(a) # Head(b) THEN Head(a) < Head(b)
    ELSE StrLess(Tail(a), Tail(b))

\* -------------------------------------------------------------- records

\* A document built from four optional fields; each argument is the empty
\* set (key absent) or a singleton holding the stored value.
FieldOpt(k, u, s, p, e) ==
    CASE k = "user_name" -> u
      [] k = "lusha_api_success" -> s
      [] k = "phone_found" -> p
      [] k = "enrichment_source" -> e

MkRecord(u, s, p, e) ==
    [k \in {kk \in {"user_name", "lusha_api_success", "phone_found",
                    "enrichment_source"} : FieldOpt(kk, u, s, p, e) # {}}
        |-> CHOOSE v \in FieldOpt(k, u, s, p, e) : TRUE]

\* Tri-state boolean fields: absent, true, false.
TriOpts == {{}, {TRUE}, {FALSE}}
\* enrichment_source: absent, "APOLLO", or another provider.
SourceOpts == {{}, {"APOLLO"}, {"LUSHA"}}

RecordsOf(userOpts, successOpts, phoneOpts, sourceOpts) ==
    {MkRecord(u, s, p, e) : u \in userOpts, s \in successOpts,
                            p \in phoneOpts, e \in sourceOpts}

SeqUpTo(S, n) == UNION {[1..k -> S] : k \in 0..n}

\* r.get(k) is True / is False / == "APOLLO"
IsTrue(r, k) == k \in DOMAIN r /\ r[k] = TRUE
IsFalse(r, k) == k \in DOMAIN r /\ r[k] = FALSE
IsApollo(r) == "enrichment_source" \in DOMAIN r /\ r["enrichment_source"] = "APOLLO"

\* ------------------------------------------------------ analyze_records

total_calls(recs) == Len(recs)

successful_calls(recs) ==
    Cardinality({i \in 1..Len(recs) : IsTrue(recs[i], "lusha_api_success")})

failed_calls_not_success(recs) ==
    Cardinality({i \in 1..Len(recs) : ~IsTrue(recs[i], "lusha_api_success")})

failed_calls(recs) ==
    Cardinality({i \in 1..Len(recs) : IsFalse(recs[i], "lusha_api_success")})

apollo_calls(recs) == Cardinality({i \in 1..Len(recs) : IsApollo(recs[i])})

lusha_calls(recs) == total_calls(recs) - apollo_calls(recs)

phone_found_total(recs) ==
    Cardinality({i \in 1..Len(recs) : IsTrue(recs[i], "phone_found")})

phone_not_found_total(recs) ==
    Cardinality({i \in 1..Len(recs) : IsFalse(recs[i], "phone_found")})

apollo_phone_found_total(recs) ==
    Cardinality({i \in 1..Len(recs) :
                    IsTrue(recs[i], "phone_found") /\ IsApollo(recs[i])})

lusha_phone_found_total_only_lusha(recs) ==
    Cardinality({i \in 1..Len(recs) :
                    /\ IsTrue(recs[i], "phone_found")
                    /\ "enrichment_source" \in DOMAIN recs[i]
                    /\ recs[i]["enrichment_source"] = "LUSHA"})

lusha_phone_found_total(recs) ==
    Cardinality({i \in 1..Len(recs) :
                    IsTrue(recs[i], "phone_found") /\ ~IsApollo(recs[i])})

\* The defaultdict's factory: a fresh all-zero bucket.
ZeroStats ==
    [total |-> 0, success |-> 0, failed |-> 0, lusha_calls |-> 0,
     lusha_phone_found |-> 0, apollo_calls |-> 0, apollo_phone_found |-> 0,
     phone_found |-> 0]

\* record.get('user_name', 'Unknown')
UserNameOf(r) == IF "user_name" \in DOMAIN r THEN r["user_name"] ELSE Unknown

\* Like StatsStep, but 'failed' counts only an explicit false.
StatsStepExplicitFailed(stats, r) ==
    LET is_success == IsTrue(r, "lusha_api_success")
        phone_found == IsTrue(r, "phone_found")
        apollo == IsApollo(r)
        inc(b) == IF b THEN 1 ELSE 0
    IN  [total |-> stats.total + 1,
         success |-> stats.success + inc(is_success),
         failed |-> stats.failed + inc(IsFalse(r, "lusha_api_success")),
         phone_found |-> stats.phone_found + inc(phone_found),
         apollo_calls |-> stats.apollo_calls + inc(apollo),
         apollo_phone_found |-> stats.apollo_phone_found + inc(apollo /\ phone_found),
         lusha_calls |-> stats.lusha_calls + inc(~apollo),
         lusha_phone_found |-> stats.lusha_phone_found + inc(~apollo /\ phone_found)]

\* The loop body after the bucket lookup: the updates of one record.
StatsStep(stats, r) ==
    LET is_success == IsTrue(r, "lusha_api_success")
        phone_found == IsTrue(r, "phone_found")
        apollo == IsApollo(r)
        inc(b) == IF b THEN 1 ELSE 0
    IN  [total |-> stats.total + 1,
         success |-> stats.success + inc(is_success),
         failed |-> stats.failed + inc(~is_success),
         phone_found |-> stats.phone_found + inc(phone_found),
         apollo_calls |-> stats.apollo_calls + inc(apollo),
         apollo_phone_found |-> stats.apollo_phone_found + inc(apollo /\ phone_found),
         lusha_calls |-> stats.lusha_calls + inc(~apollo),
         lusha_phone_found |-> stats.lusha_phone_found + inc(~apollo /\ phone_found)]

\* A dict is a sequence of items [key, val] in insertion order, keys distinct.
HasKey(d, k) == \E i \in 1..Len(d) : d[i].key = k
IndexOf(d, k) == CHOOSE i \in 1..Len(d) : d[i].key = k

\* stats = user_stats[user_name] followed by the updates: a missing key is
\* inserted at the end with the factory's value.
UpdateUser(d, r) ==
    LET k == UserNameOf(r)
        d1 == IF HasKey(d, k) THEN d ELSE Append(d, [key |-> k, val |-> ZeroStats])
        i == IndexOf(d1, k)
    IN  [d1 EXCEPT ![i].val = StatsStep(d1[i].val, r)]

\* for record in records: ...
RECURSIVE UserLoop(_, _)
UserLoop(d, recs) ==
    IF recs = <<>> THEN d ELSE UserLoop(UpdateUser(d, Head(recs)), Tail(recs))

analyze_records(recs) ==
    [overall |->
        [total_calls |-> total_calls(recs),
         successful_calls |-> successful_calls(recs),
         failed_calls |-> failed_calls(recs),
         apollo_calls |-> apollo_calls(recs),
         lusha_calls |-> lusha_calls(recs),
         phone_found_total |-> phone_found_total(recs),
         phone_not_found_total |-> phone_not_found_total(recs),
         apollo_phone_found_total |-> apollo_phone_found_total(recs),
         lusha_phone_found_total |-> lusha_phone_found_total(recs)],
     user_stats |-> UserLoop(<<>>, recs)]

\* --------------------------------------------------------- generate_csv

\* Python's tuple ordering on dict items: the keys decide (they are distinct,
\* so the values are never compared).
ItemLess(x, y) == StrLess(x.key, y.key)

\* Insert x into the sorted sequence s, after every item not greater (stable).
RECURSIVE InsertSorted(_, _)
InsertSorted(s, x) ==
    IF s = <<>> THEN <<x>>
    ELSE IF ItemLess(x, Head(s)) THEN <<x>> \o s
    ELSE <<Head(s)>> \o InsertSorted(Tail(s), x)

RECURSIVE SortItems(_)
SortItems(d) ==
    IF d = <<>> THEN <<>>
    ELSE InsertSorted(SortItems(SubSeq(d, 1, Len(d) - 1)), d[Len(d)])

\* Iterating user_stats.items() without sorted(): insertion order.
sorted_items_unsorted(d) == d

\* sorted(user_stats.items())
sorted_items(d) == SortItems(d)

\* One user row per item of the iteration.
UserRow(item) ==
    <<item.key, item.val.total, item.val.success, item.val.failed,
      item.val.lusha_calls, item.val.lusha_phone_found, item.val.apollo_calls,
      item.val.apollo_phone_found, item.val.phone_found>>

\* The rows written after the 'User, Total, ...' header.
user_rows(analysis) ==
    LET items == sorted_items(analysis.user_stats)
    IN  [i \in 1..Len(items) |-> UserRow(items[i])]

\* -------------------------------------------------------- configuration

\* The environment values read at import; TRUE when the value is set and
\* non-empty (truthy), FALSE when os.getenv gives None or "".
ConfigKeys ==
    {"MONGO_URI", "DB_NAME", "COLLECTION_NAME", "SMTP_SERVER", "SMTP_PASSWORD",
     "DEFAULT_FROM_EMAIL", "RECIPIENT_EMAIL"}

\* not MONGO_URI or not DB_NAME or not COLLECTION_NAME, negated
mongo_config_ok(c) == c["MONGO_URI"] /\ c["DB_NAME"] /\ c["COLLECTION_NAME"]

\* The guard with RECIPIENT_EMAIL left out of the list.
email_config_ok_no_recipient(c) == c["SMTP_PASSWORD"] /\ c["DEFAULT_FROM_EMAIL"]

\* all([SMTP_PASSWORD, DEFAULT_FROM_EMAIL, RECIPIENT_EMAIL])
email_config_ok(c) ==
    c["SMTP_PASSWORD"] /\ c["DEFAULT_FROM_EMAIL"] /\ c["RECIPIENT_EMAIL"]

\* ------------------------------------------------------------ transport

\* Where the with-block of send_email can fail. smtplib.SMTP(host, port)
\* connects only when host is truthy; with no host the client is built
\* unconnected and starttls() raises SMTPServerDisconnected.
SmtpOutcomes(c) ==
    IF c["SMTP_SERVER"] THEN {"none", "connect", "starttls", "login", "send"}
    ELSE {"starttls"}

\* send_email with the try/except removed: a transport error propagates.
send_email_result_no_except(fail) == IF fail = "none" THEN "true" ELSE "raised"

\* return True after the with-block; except Exception: return False
send_email_result(fail) == IF fail = "none" THEN "true" ELSE "false"

\* return success; except Exception: return False
send_email_with_csv_result(inner) == IF inner = "raised" THEN "false" ELSE inner

\* main with the empty check removed.
nothing_to_report_never(recs) == FALSE

\* if len(records) == 0: return
nothing_to_report(recs) == Len(recs) = 0

\* ---------------------------------------------------------------- state

VARIABLES
    pc,               \* where main is: connect, fetch, analyze, csv, email, done, raised
    config,           \* ConfigKeys -> BOOLEAN
    fetched,          \* fetch_last_24_hours_records has returned
    records,          \* the list it returned
    analysis,         \* <<>> or <<the AnalysisResult>>
    file_written,     \* the report file exists
    csv_rows,         \* its user rows
    service_result,   \* EmailService.send_email: none, true, false, raised
    email_result,     \* send_email_with_csv: none, true, false, raised
    connect_attempts, \* SMTP connections opened or tried
    send_attempts,    \* send_message calls
    store_failure,    \* none, connect, fetch
    smtp_failure,     \* none, connect, starttls, login, send
    log               \* the diagnostics printed

vars ==
    <<pc, config, fetched, records, analysis, file_written, csv_rows,
      service_result, email_result, connect_attempts, send_attempts,
      store_failure, smtp_failure, log>>

\* The record universes of the three specifications.
AnalysisRecords == RecordsOf({{}, {alice}, {bob}}, TriOpts, TriOpts, SourceOpts)
CsvRecords == RecordsOf({{}, {alice}, {bob}, {al}, {Unknown}}, {{TRUE}}, {{TRUE}},
                        {{"APOLLO"}, {"LUSHA"}})
FetchRecords == RecordsOf({{}, {bob}}, {{}, {TRUE}}, {{FALSE}}, {{}, {"APOLLO"}})

InitRest ==
    /\ fetched = FALSE
    /\ analysis = <<>>
    /\ file_written = FALSE
    /\ csv_rows = <<>>
    /\ service_result = "none"
    /\ email_result = "none"
    /\ connect_attempts = 0
    /\ send_attempts = 0
    /\ store_failure = "none"
    /\ smtp_failure = "none"
    /\ log = {}

\* A run of main under any configuration.
Init ==
    /\ pc = "connect"
    /\ config \in [ConfigKeys -> BOOLEAN]
    /\ records = <<>>
    /\ InitRest

\* analyze_records applied to any record list.
InitAnalysis ==
    /\ pc = "analyze"
    /\ config = [k \in ConfigKeys |-> TRUE]
    /\ records \in SeqUpTo(AnalysisRecords, MaxRecords)
    /\ InitRest

\* analyze_records, then generate_csv, on lists of many users.
InitCsv ==
    /\ pc = "analyze"
    /\ config = [k \in ConfigKeys |-> TRUE]
    /\ records \in SeqUpTo(CsvRecords, MaxCsvRecords)
    /\ InitRest

\* -------------------------------------------------------------- actions

\* collection = connect_to_mongodb(); if collection is None: return
connect_to_mongodb ==
    /\ pc = "connect"
    /\ \/ /\ ~mongo_config_ok(config)
          /\ log' = log \cup {"Error: Missing configuration in .env file"}
          /\ pc' = "done"
          /\ UNCHANGED store_failure
       \/ /\ mongo_config_ok(config)
          /\ pc' = "fetch"
          /\ UNCHANGED <<log, store_failure>>
       \/ /\ mongo_config_ok(config)
          /\ store_failure' = "connect"
          /\ log' = log \cup {"Error connecting to MongoDB"}
          /\ pc' = "done"
    /\ UNCHANGED <<config, fetched, records, analysis, file_written, csv_rows,
                   service_result, email_result, connect_attempts,
                   send_attempts, smtp_failure>>

\* records = fetch_last_24_hours_records(collection); if len(records) == 0: return
\* collection.find is called outside any try: its exception leaves main.
fetch_last_24_hours_records ==
    /\ pc = "fetch"
    /\ \/ \E recs \in SeqUpTo(FetchRecords, MaxFetch) :
             /\ records' = recs
             /\ fetched' = TRUE
             /\ pc' = IF nothing_to_report(recs) THEN "done" ELSE "analyze"
             /\ UNCHANGED store_failure
       \/ /\ store_failure' = "fetch"
          /\ pc' = "raised"
          /\ UNCHANGED <<records, fetched>>
    /\ UNCHANGED <<config, analysis, file_written, csv_rows, service_result,
                   email_result, connect_attempts, send_attempts, smtp_failure,
                   log>>

\* analysis = analyze_records(records)
AnalyzeRecords ==
    /\ pc = "analyze"
    /\ analysis' = <<analyze_records(records)>>
    /\ pc' = "csv"
    /\ UNCHANGED <<config, fetched, records, file_written, csv_rows,
                   service_result, email_result, connect_attempts,
                   send_attempts, store_failure, smtp_failure, log>>

\* csv_filename = generate_csv(analysis); open() is called outside any try.
generate_csv ==
    /\ pc = "csv"
    /\ \/ /\ file_written' = TRUE
          /\ csv_rows' = user_rows(analysis[1])
          /\ pc' = "email"
       \/ /\ pc' = "raised"
          /\ UNCHANGED <<file_written, csv_rows>>
    /\ UNCHANGED <<config, fetched, records, analysis, service_result,
                   email_result, connect_attempts, send_attempts,
                   store_failure, smtp_failure, log>>

\* send_email_with_csv(csv_filename, analysis), with the call of
\* EmailService.send_email it makes.
send_email_with_csv ==
    /\ pc = "email"
    /\ \/ /\ ~email_config_ok(config)
          /\ log' = log \cup {"Error: Missing email configuration in .env file"}
          /\ email_result' = "false"
          /\ UNCHANGED <<service_result, connect_attempts, send_attempts,
                         smtp_failure>>
       \/ /\ email_config_ok(config)
          /\ \E fail \in SmtpOutcomes(config) :
                /\ smtp_failure' = fail
                /\ connect_attempts' =
                       connect_attempts + (IF config["SMTP_SERVER"] THEN 1 ELSE 0)
                /\ send_attempts' =
                       send_attempts + (IF fail \in {"none", "send"} THEN 1 ELSE 0)
                /\ service_result' = send_email_result(fail)
                /\ email_result' = send_email_with_csv_result(send_email_result(fail))
                /\ log' = IF fail = "none" THEN log
                          ELSE log \cup {"Error sending email"}
    /\ pc' = IF email_result' = "raised" THEN "raised" ELSE "done"
    /\ UNCHANGED <<config, fetched, records, analysis, file_written, csv_rows,
                   store_failure>>

Next ==
    \/ connect_to_mongodb
    \/ fetch_last_24_hours_records
    \/ AnalyzeRecords
    \/ generate_csv
    \/ send_email_with_csv

Spec == Init /\ [][Next]_vars

NextAnalysis == AnalyzeRecords

AnalysisSpec == InitAnalysis /\ [][NextAnalysis]_vars

NextCsv == AnalyzeRecords \/ generate_csv

CsvSpec == InitCsv /\ [][NextCsv]_vars

\* --------------------------------------------------------------- claims

\* The sum of one counter over all user buckets.
RECURSIVE SumStat(_, _)
SumStat(d, f) == IF d = <<>> THEN 0 ELSE Head(d).val[f] + SumStat(Tail(d), f)

Analyzed == Len(analysis) = 1
Overall == analysis[1].overall
UserStats == analysis[1].user_stats

\* r has lusha_api_success explicitly set to true or false.
ExplicitOutcome(r) ==
    "lusha_api_success" \in DOMAIN r /\ r["lusha_api_success"] \in BOOLEAN

\* C1: each per-user counter of analyze_records, summed over all users, equals
\* the corresponding overall counter (total, success, failed, apollo_calls,
\* lusha_calls, phone_found and the two per-provider phone counters), also
\* when lusha_api_success is absent on some records.
C1_UserSumsEqualOverall ==
    Analyzed =>
        /\ SumStat(UserStats, "total") = Overall.total_calls
        /\ SumStat(UserStats, "success") = Overall.successful_calls
        /\ SumStat(UserStats, "failed") = Overall.failed_calls
        /\ SumStat(UserStats, "apollo_calls") = Overall.apollo_calls
        /\ SumStat(UserStats, "lusha_calls") = Overall.lusha_calls
        /\ SumStat(UserStats, "phone_found") = Overall.phone_found_total
        /\ SumStat(UserStats, "apollo_phone_found") = Overall.apollo_phone_found_total
        /\ SumStat(UserStats, "lusha_phone_found") = Overall.lusha_phone_found_total

\* C2: in every user bucket of the result, success + failed = total and
\* lusha_calls + apollo_calls = total, whatever the values (true, false,
\* absent) of lusha_api_success and enrichment_source on the user's records.
C2_UserBucketsBalanced ==
    Analyzed =>
        \A i \in 1..Len(UserStats) :
            /\ UserStats[i].val.success + UserStats[i].val.failed
                   = UserStats[i].val.total
            /\ UserStats[i].val.lusha_calls + UserStats[i].val.apollo_calls
                   = UserStats[i].val.total

\* A bucket of two records, one with lusha_api_success absent and one with
\* enrichment_source absent.
C2_Witness ==
    /\ Analyzed
    /\ \E i \in 1..Len(UserStats) : UserStats[i].val.total = 2
    /\ \E j \in 1..Len(records) : "lusha_api_success" \notin DOMAIN records[j]
    /\ \E j \in 1..Len(records) : "enrichment_source" \notin DOMAIN records[j]
    /\ \E j \in 1..Len(records) : IsFalse(records[j], "lusha_api_success")

\* C3: successful_calls + failed_calls <= total_calls, with equality exactly
\* when every record has lusha_api_success explicitly true or false.
C3_OutcomeTotals ==
    Analyzed =>
        /\ Overall.successful_calls + Overall.failed_calls <= Overall.total_calls
        /\ (Overall.successful_calls + Overall.failed_calls = Overall.total_calls)
               <=> (\A i \in 1..Len(records) : ExplicitOutcome(records[i]))

\* One record with the field absent beside an explicit one: strict inequality.
C3_Witness ==
    /\ Analyzed
    /\ Len(records) = 2
    /\ ExplicitOutcome(records[1])
    /\ ~ExplicitOutcome(records[2])
    /\ Overall.successful_calls + Overall.failed_calls = 1

\* C4: every record is attributed to exactly one provider, Apollo iff
\* enrichment_source = "APOLLO" and Lusha otherwise (also when absent):
\* apollo_calls + lusha_calls = total_calls and
\* apollo_phone_found_total + lusha_phone_found_total = phone_found_total.
C4_ProviderPartition ==
    Analyzed =>
        /\ Overall.apollo_calls
               = Cardinality({i \in 1..Len(records) :
                     "enrichment_source" \in DOMAIN records[i]
                     /\ records[i]["enrichment_source"] = "APOLLO"})
        /\ Overall.apollo_calls + Overall.lusha_calls = Overall.total_calls
        /\ Overall.total_calls = Len(records)
        /\ Overall.apollo_phone_found_total + Overall.lusha_phone_found_total
               = Overall.phone_found_total

\* A phone found on a record with no enrichment_source, beside an Apollo one.
C4_Witness ==
    /\ Analyzed
    /\ \E i \in 1..Len(records) :
          "enrichment_source" \notin DOMAIN records[i]
          /\ IsTrue(records[i], "phone_found")
    /\ \E i \in 1..Len(records) :
          IsApollo(records[i]) /\ IsTrue(records[i], "phone_found")
    /\ Overall.lusha_phone_found_total = 1
    /\ Overall.apollo_phone_found_total = 1

\* C10: generate_csv writes exactly one user row per key of user_stats, in
\* strictly ascending lexicographic order of user_name, whatever the order in
\* which the records were met.
C10_RowsSortedOnePerUser ==
    file_written =>
        /\ Len(csv_rows) = Len(UserStats)
        /\ {csv_rows[i][1] : i \in 1..Len(csv_rows)}
               = {UserNameOf(records[i]) : i \in 1..Len(records)}
        /\ \A i \in 1..Len(UserStats) :
              \E j \in 1..Len(csv_rows) : csv_rows[j] = UserRow(UserStats[i])
        /\ \A i, j \in 1..Len(csv_rows) :
              i < j => StrLess(csv_rows[i][1], csv_rows[j][1])

\* Three users met in descending order ("bob", "alice", "al", then "bob"
\* again) and written in ascending order, one row each.
C10_Witness ==
    /\ file_written
    /\ Len(records) = 4
    /\ UserNameOf(records[4]) = bob
    /\ UserNameOf(records[1]) = bob
    /\ UserNameOf(records[2]) = alice
    /\ UserNameOf(records[3]) = al
    /\ Len(csv_rows) = 3
    /\ csv_rows[1][1] = al
    /\ csv_rows[3][1] = bob

\* A required mail setting is missing: transport host, password, sender
\* address (also the transport username) or recipient address.
MailConfigMissing ==
    \E k \in {"SMTP_SERVER", "SMTP_PASSWORD", "DEFAULT_FROM_EMAIL", "RECIPIENT_EMAIL"} :
        ~config[k]

\* C5: when the fetch returns an empty list, main returns at once: no
\* aggregation, no report file, no email attempt, and no exception.
C5_EmptyFetchNoOutput ==
    (fetched /\ records = <<>>) =>
        /\ pc = "done"
        /\ analysis = <<>>
        /\ ~file_written
        /\ email_result = "none"
        /\ connect_attempts = 0
        /\ send_attempts = 0

\* The store was reached and returned no record.
C5_Witness == fetched /\ records = <<>> /\ pc = "done" /\ store_failure = "none"

\* C6: a run in which any required configuration value is missing writes no
\* report file and sends no email, also when only mail settings are missing
\* and the store returns a record.
C6_MissingConfigNoOutput ==
    (\E k \in ConfigKeys : ~config[k]) =>
        /\ ~file_written
        /\ send_attempts = 0

\* C7: when the recipient or a required mail credential (host, sender
\* address / username, password) is missing, send_email_with_csv returns
\* failure and neither an SMTP connection nor a send is attempted.
C7_MissingMailConfigNoTransport ==
    (email_result # "none" /\ MailConfigMissing) =>
        /\ email_result = "false"
        /\ connect_attempts = 0
        /\ send_attempts = 0

\* Scenario C: only the recipient address is missing, and the call has returned.
C7_Witness ==
    /\ email_result = "false"
    /\ ~config["RECIPIENT_EMAIL"]
    /\ \A k \in ConfigKeys \ {"RECIPIENT_EMAIL"} : config[k]
    /\ pc = "done"

\* C8: on a transport failure (connection, STARTTLS, login, send) both
\* send_email and send_email_with_csv return failure instead of raising,
\* nothing is retried (at most one connection and one send per run), and
\* main ends normally.
C8_TransportFailureContained ==
    /\ connect_attempts <= 1
    /\ send_attempts <= 1
    /\ smtp_failure # "none" =>
          /\ service_result = "false"
          /\ email_result = "false"
          /\ pc = "done"

\* The login was refused after a connection was made.
C8_Witness ==
    /\ smtp_failure = "login"
    /\ connect_attempts = 1
    /\ email_result = "false"
    /\ pc = "done"

\* C9: when the store fails, at connection time or during the fetch, the run
\* logs a diagnostic and ends with no exception leaving main, no report
\* file and no email.
C9_StoreFailureHandled ==
    store_failure # "none" =>
        /\ pc # "raised"
        /\ log # {}
        /\ ~file_written
        /\ send_attempts = 0

====
